---- MODULE Spec2Model ----
(***************************************************************************)
(* Model of the Project Zomboid update monitor                             *)
(* (src/pzUpdateManager/pz_update_monitor.py):                             *)
(*   - RCONClient: packet framing, authentication, multi-packet read loop  *)
(*   - the steam_versions table and check_steam_game_update                *)
(*   - the restart scheduler (handle_update_detected, restart_server,      *)
(*     schedule_restart_with_warnings and its two threading.Timer tasks)   *)
(*   - the mod check's scan of the server log                              *)
(*   - run_monitor_loop, which calls the build check, the mod check and    *)
(*     the restart scheduler in turn                                       *)
(* The specifications share the variables: SpecRcon, SpecStore, SpecSched  *)
(* and SpecMods each run one component and leave the others' variables     *)
(* unchanged; SpecLoop runs the monitor loop over all of them.             *)
(***************************************************************************)
EXTENDS Integers, Sequences, FiniteSets, TLC

VARIABLES
    \* ---- RCONClient and its socket ----
    socket,         \* self.socket: "none" (None) or "open"
    request_id,     \* self.request_id
    inbox,          \* frames waiting in the socket's receive buffer
    peerClosed,     \* the remote end has closed the connection
    rsent,          \* number of frames the remote has written on this connection
    sent,           \* frames written to the socket, oldest first (wire bytes)
    pc,             \* where the calling task is: "idle", "auth", "reading"
    command,        \* body of the command being sent
    full_response,  \* send_command's accumulator
    packet_count,   \* send_command's loop counter
    result,         \* ghost: outcome of the last public operation, once finished
    stream,         \* ghost: what arrived on the socket since the command was sent
    \* ---- steam_versions table and the build check ----
    db,             \* rows of steam_versions
    clock,          \* datetime.now() of the build check, in check numbers
    checked,        \* ghost: the last build check: what it saw and returned
    \* ---- restart scheduler ----
    restart_scheduled, \* self.restart_scheduled
    timers,            \* started threading.Timer objects that have not fired
    now,               \* wall clock, seconds
    log,               \* ghost: commands and actions issued, oldest first
    ncalls,            \* ghost: number of handle_update_detected calls so far
    last,              \* ghost: the last scheduler step taken
    \* ---- mod check ----
    recent_logs,    \* lines get_recent_log_content returns after the settle delay
    later_logs,     \* lines it returns at the re-scan, five seconds later
    modcheck,       \* ghost: the last mod check: what it returned and where
    \* ---- monitor loop ----
    lpc,            \* where the main task is in run_monitor_loop
    check_mods,     \* self.check_mods
    game_updated,   \* run_monitor_loop's local
    mods_need_update, \* run_monitor_loop's local
    wake,           \* when the main task's time.sleep ends
    tests,          \* ghost: number of test_server_connection calls so far
    steps,          \* ghost: what the current cycle has done so far
    \* ---- one RCONClient shared by the main task and a timer task ----
    sockref,        \* self.socket: 0 (None) or the socket object it refers to
    live,           \* socket objects that are open (created and not closed)
    connected,      \* the open sockets whose connect() has succeeded
    nextsock,       \* number of socket objects created so far
    tpc,            \* where each task is inside send_command
    tsock,          \* the socket object each task is blocked in a call of (0: none)
    tload,          \* the value each task has loaded for self.request_id += 1
    written            \* ghost: packets written, oldest first

rconVars  == <<socket, request_id, inbox, peerClosed, rsent, sent, pc, command,
               full_response, packet_count, result, stream>>
storeVars == <<db, clock, checked>>
schedVars == <<restart_scheduled, timers, now, log, ncalls, last>>
modVars   == <<recent_logs, later_logs, modcheck>>
loopVars  == <<lpc, check_mods, game_updated, mods_need_update, wake, tests, steps>>
concVars  == <<sockref, live, connected, nextsock, tpc, tsock, tload, written>>
vars      == <<rconVars, storeVars, schedVars, modVars, loopVars, concVars>>

----------------------------------------------------------------------------
(* Bounds of the model *)

\* frames the remote may have queued in the receive buffer at one time
MaxInbox == 2
\* packets sent by one client instance
MaxRequestId == 3
\* frames the remote writes on one connection
MaxRemote == 12
\* build checks run
MaxChecks == 3
\* calls of handle_update_detected
MaxCalls == 2
\* minutes of wall clock
MaxTicks == 32
\* lines in the scanned log window
MaxLines == 3

----------------------------------------------------------------------------
(* Bytes and little-endian 32-bit integers (struct.pack('<i', ...)) *)

\* the four bytes of a natural below 2^31, least significant first
Bytes4(u) == << u % 256, (u \div 256) % 256, (u \div 65536) % 256, (u \div 16777216) % 256 >>

\* struct.pack('<i', n): two's complement (the complement of -(n+1) for n < 0)
PackI32(n) ==
    IF n >= 0 THEN Bytes4(n)
    ELSE LET c == Bytes4(-(n + 1)) IN << 255 - c[1], 255 - c[2], 255 - c[3], 255 - c[4] >>

\* struct.unpack('<i', b)[0]: the top bit of the last byte is the sign
UnpackI32(b) ==
    IF b[4] < 128
    THEN b[1] + 256 * b[2] + 65536 * b[3] + 16777216 * b[4]
    ELSE -(1 + (255 - b[1]) + 256 * (255 - b[2]) + 65536 * (255 - b[3]) + 16777216 * (255 - b[4]))

\* Python slice s[i:j] with 0-based i and exclusive j, both already non-negative
Slice(s, i, j) == SubSeq(s, i + 1, IF j > Len(s) THEN Len(s) ELSE j)

\* bytes.decode('utf-8') succeeds; the model's bodies are ASCII or hold byte 255
ValidUtf8(b) == \A i \in 1..Len(b) : b[i] < 128

----------------------------------------------------------------------------
(* RCON framing *)

SERVERDATA_AUTH == 3
SERVERDATA_EXECCOMMAND == 2
max_packets == 10

\* the configured password and the commands the monitor sends, as UTF-8 bytes
Password == <<112, 119>>
Commands == { <<115>> }

\* RCONClient._send_packet, the bytes handed to socket.send for request id rid
SendPacketBytesShortLength(rid, packet_type, body) ==
    LET packet == PackI32(rid) \o PackI32(packet_type) \o body \o <<0, 0>>
        length == Len(packet) - 2
    IN  PackI32(length) \o packet
SendPacketBytes(rid, packet_type, body) ==
    LET packet == PackI32(rid) \o PackI32(packet_type) \o body \o <<0, 0>>
        length == Len(packet)
    IN  PackI32(length) \o packet

\* RCONClient._receive_packet on one complete frame of the byte stream:
\* ok = FALSE when it raises (struct.error on a short frame, UnicodeDecodeError)
ReceivePacketBodyEnd(data) == Len(data) - 2
ReceivePacket(wire) ==
    LET length == UnpackI32(Slice(wire, 0, 4))
        data   == Slice(wire, 4, 4 + (IF length < 0 THEN 0 ELSE length))
        raw    == Slice(data, 8, IF ReceivePacketBodyEnd(data) < 0 THEN 0 ELSE ReceivePacketBodyEnd(data))
    IN  IF Len(data) < 8 \/ ~ValidUtf8(raw)
        THEN [ok |-> FALSE, request_id |-> 0, packet_type |-> 0, body |-> <<>>]
        ELSE [ok |-> TRUE,
              request_id  |-> UnpackI32(Slice(data, 0, 4)),
              packet_type |-> UnpackI32(Slice(data, 4, 8)),
              body        |-> raw]

(* The remote end.  Each queued frame carries, beside its wire bytes, the    *)
(* request id and body the remote meant to send, and whether it was already  *)
(* in the receive buffer when the command being answered was written (ghost, *)
(* never read by the client).                                                *)
RemoteFrame(rid, packet_type, body) ==
    PackI32(8 + Len(body) + 2) \o PackI32(rid) \o PackI32(packet_type) \o body \o <<0, 0>>

\* body of the k-th frame the remote writes on a connection, when it carries
\* text: frames differ so that order and length of the accumulated text show
RemoteBody(k) == IF k % 2 = 1 THEN <<96 + k>> ELSE <<96 + k, 96 + k>>

\* what the remote may write as its k-th frame: text, an empty body, an
\* authentication failure (request id -1), invalid UTF-8, a frame too short
\* for its header
RemoteFrames(k) ==
    { [kind |-> "pkt", rid |-> 1,  body |-> RemoteBody(k), wire |-> RemoteFrame(1, 0, RemoteBody(k)), late |-> FALSE],
      [kind |-> "pkt", rid |-> 1,  body |-> <<>>,          wire |-> RemoteFrame(1, 0, <<>>), late |-> FALSE],
      [kind |-> "pkt", rid |-> -1, body |-> <<>>,          wire |-> RemoteFrame(-1, 2, <<>>), late |-> FALSE],
      [kind |-> "bad", rid |-> 1,  body |-> <<255>>,       wire |-> RemoteFrame(1, 0, <<255>>), late |-> FALSE],
      [kind |-> "bad", rid |-> 1,  body |-> <<>>,          wire |-> PackI32(4) \o PackI32(1), late |-> FALSE] }

TimeoutMark == [kind |-> "timeout", rid |-> 0, body |-> <<>>, wire |-> <<>>, late |-> FALSE]
ClosedMark  == [kind |-> "closed",  rid |-> 0, body |-> <<>>, wire |-> <<>>, late |-> FALSE]

\* outcome of a public operation; why (ghost) tells what ended it
NoResult == [kind |-> "none", op |-> "none", text |-> <<>>, why |-> "none"]
Returned(o, text, why) == [kind |-> "returned", op |-> o, text |-> text, why |-> why]
Raised(o, why)         == [kind |-> "raised",   op |-> o, text |-> <<>>, why |-> why]

----------------------------------------------------------------------------
(* RCONClient operations.  A call blocks in socket.recv; the remote's sends  *)
(* and the read timeouts interleave there, so connect() and send_command()   *)
(* are cut at each _receive_packet.                                          *)

\* the socket is released (socket.close(); self.socket = None): its buffer goes
Released ==
    /\ socket' = "none"
    /\ inbox' = <<>>
    /\ peerClosed' = FALSE
    /\ rsent' = 0

\* if self.socket: / if not self.socket:
SocketHeldAlways(s) == TRUE
SocketHeldNever(s) == FALSE
SocketHeld(s) == s # "none"

\* how connect() goes up to its _send_packet(3, password): the socket is
\* connected and the Auth packet written; socket() or connect() raises; or
\* the connection is made and socket.send raises
ConnectOutcomes == { "ok", "refused", "send_fails" }

\* connect()'s except clause: if self.socket: self.socket.close();
\* self.socket = None; raise e.  The error leaves send_command, whose call of
\* connect() is outside its try block.
ConnectFailedKeepsSocket(why) ==
    /\ UNCHANGED <<socket, inbox, peerClosed, rsent>>
    /\ pc' = "idle"
    /\ result' = Raised("send_command", why)
ConnectFailed(why) ==
    /\ Released
    /\ pc' = "idle"
    /\ result' = Raised("send_command", why)

\* connect(): the test of the authentication response, response[0] == -1
AuthFailedWrongField(response) == response.packet_type = -1
AuthFailed(response) == response.request_id = -1

\* send_command's loop test after a packet was received: the while condition
\* and the break on an empty body
LoopContinuesPastEmpty(body, count) == count < max_packets
LoopContinuesNoCap(body, count) == Len(body) # 0
LoopContinues(body, count) == Len(body) # 0 /\ count < max_packets

\* the frames of the receive buffer q, marked as having arrived before the
\* command was written (the buffer itself is not touched by _send_packet)
Late(q) == [i \in 1..Len(q) |-> [q[i] EXCEPT !.late = TRUE]]

\* send_command from its try block on: _send_packet(2, command), then the
\* read loop starts.  ib is the receive buffer at that moment.
SendCommandBody(cmd, ib, sendOk) ==
    /\ request_id' = request_id + 1
    /\ command' = cmd
    /\ IF sendOk
       THEN /\ sent' = Append(sent, SendPacketBytes(request_id + 1, SERVERDATA_EXECCOMMAND, cmd))
            /\ socket' = "open"
            /\ inbox' = Late(ib)
            /\ UNCHANGED <<peerClosed, rsent>>
            /\ pc' = "reading"
            /\ full_response' = <<>>
            /\ packet_count' = 0
            /\ stream' = ib
            /\ result' = NoResult
       ELSE \* socket.send raised: except Exception -> self.close(); raise
            /\ Released
            /\ pc' = "idle"
            /\ result' = Raised("send_command", "send")
            /\ UNCHANGED <<sent, full_response, packet_count, stream>>

\* send_command(cmd) is called.  Without a socket it enters connect():
\* a new socket is connected and the Auth packet is sent.
CallSendCommand(cmd) ==
    /\ pc = "idle"
    /\ request_id + (IF SocketHeld(socket) THEN 1 ELSE 2) <= MaxRequestId
    /\ IF ~SocketHeld(socket)
       THEN \E outcome \in ConnectOutcomes :
              IF outcome = "ok"
              THEN /\ socket' = "open"
                   /\ inbox' = <<>>
                   /\ peerClosed' = FALSE
                   /\ rsent' = 0
                   /\ request_id' = request_id + 1
                   /\ sent' = Append(sent, SendPacketBytes(request_id + 1, SERVERDATA_AUTH, Password))
                   /\ command' = cmd
                   /\ pc' = "auth"
                   /\ result' = NoResult
                   /\ UNCHANGED <<full_response, packet_count, stream>>
              ELSE \* the socket is closed, the error re-raised; _send_packet has
                   \* taken a request id before its send raised
                   /\ ConnectFailed(IF outcome = "refused" THEN "connect" ELSE "auth_send")
                   /\ command' = cmd
                   /\ request_id' = IF outcome = "refused" THEN request_id ELSE request_id + 1
                   /\ UNCHANGED <<sent, full_response, packet_count, stream>>
       ELSE \E sendOk \in (IF peerClosed THEN BOOLEAN ELSE {TRUE}) :
              SendCommandBody(cmd, inbox, sendOk)
    /\ UNCHANGED <<storeVars, schedVars, modVars, loopVars, concVars>>

\* connect(): response = self._receive_packet() returns or raises
AuthResponse ==
    /\ pc = "auth"
    /\ inbox # <<>>
    /\ LET response == ReceivePacket(Head(inbox).wire)
       IN  IF ~response.ok
           THEN /\ ConnectFailed("error")
                /\ UNCHANGED <<request_id, sent, command, full_response, packet_count, stream>>
           ELSE IF AuthFailed(response)
           THEN \* raise Exception("RCON authentication failed")
                /\ ConnectFailed("auth")
                /\ UNCHANGED <<request_id, sent, command, full_response, packet_count, stream>>
           ELSE \* connect() returns True; send_command goes on
                \E sendOk \in (IF peerClosed THEN BOOLEAN ELSE {TRUE}) :
                   SendCommandBody(command, Tail(inbox), sendOk)
    /\ UNCHANGED <<storeVars, schedVars, modVars, loopVars, concVars>>

\* connect(): socket.recv raises socket.timeout, or returns b'' on a closed
\* connection ("Failed to receive packet length")
AuthNoResponse ==
    /\ pc = "auth"
    /\ inbox = <<>>
    /\ ConnectFailed(IF peerClosed THEN "error" ELSE "timeout")
    /\ UNCHANGED <<request_id, sent, command, full_response, packet_count, stream>>
    /\ UNCHANGED <<storeVars, schedVars, modVars, loopVars, concVars>>

\* one turn of send_command's while loop in which _receive_packet gets a frame
ReadPacket ==
    /\ pc = "reading"
    /\ inbox # <<>>
    /\ inbox' = Tail(inbox)
    /\ LET r == ReceivePacket(Head(inbox).wire)
           count == packet_count + 1
           text == IF Len(r.body) # 0 THEN full_response \o r.body ELSE full_response
       IN  IF ~r.ok
           THEN \* except Exception: break; the socket is kept
                /\ pc' = "idle"
                /\ result' = Returned("send_command", full_response, "error")
                /\ UNCHANGED <<full_response, packet_count>>
           ELSE /\ packet_count' = count
                /\ full_response' = text
                /\ IF LoopContinues(r.body, count)
                   THEN /\ pc' = "reading"
                        /\ UNCHANGED result
                   ELSE /\ pc' = "idle"
                        /\ result' = Returned("send_command", text,
                                              IF Len(r.body) = 0 THEN "empty" ELSE "cap")
    /\ UNCHANGED <<socket, request_id, peerClosed, rsent, sent, command, stream>>
    /\ UNCHANGED <<storeVars, schedVars, modVars, loopVars, concVars>>

\* socket.recv raises socket.timeout: break
ReadTimeout ==
    /\ pc = "reading"
    /\ inbox = <<>>
    /\ ~peerClosed
    /\ pc' = "idle"
    /\ result' = Returned("send_command", full_response, "timeout")
    /\ stream' = Append(stream, TimeoutMark)
    /\ UNCHANGED <<socket, request_id, inbox, peerClosed, rsent, sent, command,
                   full_response, packet_count>>
    /\ UNCHANGED <<storeVars, schedVars, modVars, loopVars, concVars>>

\* socket.recv returns b'' on the closed connection: _receive_packet raises,
\* except Exception: break
ReadClosed ==
    /\ pc = "reading"
    /\ inbox = <<>>
    /\ peerClosed
    /\ pc' = "idle"
    /\ result' = Returned("send_command", full_response, "error")
    /\ stream' = Append(stream, ClosedMark)
    /\ UNCHANGED <<socket, request_id, inbox, peerClosed, rsent, sent, command,
                   full_response, packet_count>>
    /\ UNCHANGED <<storeVars, schedVars, modVars, loopVars, concVars>>

\* RCONClient.close()
CallClose ==
    /\ pc = "idle"
    /\ IF SocketHeld(socket)
       THEN /\ Released
            /\ result' = Returned("close", <<>>, "released")
       ELSE /\ UNCHANGED <<socket, inbox, peerClosed, rsent>>
            /\ result' = Returned("close", <<>>,
                                  IF result.op = "close" THEN "again" ELSE "nothing")
    /\ UNCHANGED <<request_id, sent, pc, command, full_response, packet_count, stream>>
    /\ UNCHANGED <<storeVars, schedVars, modVars, loopVars, concVars>>

\* the remote writes one frame to the connection
RemoteSend(f) ==
    /\ socket = "open"
    /\ ~peerClosed
    /\ Len(inbox) < MaxInbox
    /\ rsent < MaxRemote
    /\ rsent' = rsent + 1
    /\ inbox' = Append(inbox, f)
    /\ stream' = IF pc = "reading" THEN Append(stream, f) ELSE stream
    /\ UNCHANGED <<socket, request_id, peerClosed, sent, pc, command,
                   full_response, packet_count, result>>
    /\ UNCHANGED <<storeVars, schedVars, modVars, loopVars, concVars>>

\* the remote closes the connection
RemoteClose ==
    /\ socket = "open"
    /\ ~peerClosed
    /\ peerClosed' = TRUE
    /\ UNCHANGED <<socket, request_id, inbox, rsent, sent, pc, command,
                   full_response, packet_count, result, stream>>
    /\ UNCHANGED <<storeVars, schedVars, modVars, loopVars, concVars>>

NextRcon ==
    \/ \E cmd \in Commands : CallSendCommand(cmd)
    \/ AuthResponse
    \/ AuthNoResponse
    \/ ReadPacket
    \/ ReadTimeout
    \/ ReadClosed
    \/ CallClose
    \/ \E f \in RemoteFrames(rsent + 1) : RemoteSend(f)
    \/ RemoteClose

----------------------------------------------------------------------------
(* The steam_versions table and the build check *)

\* self.app_id (fallback '108600'); the other id is one an earlier run used
app_id == "108600"
AppIds == { "108600", "380870" }
\* build ids the version source may report
BuildIds == { "100", "101", "102" }

Row(t, a, bd, at) == [type |-> t, app_id |-> a, build_id |-> bd, last_checked |-> at]

\* UNIQUE(type, app_id)
UniqueTypeAppId(t) ==
    \A r1, r2 \in t : (r1.type = r2.type /\ r1.app_id = r2.app_id) => r1 = r2

\* SELECT build_id FROM steam_versions WHERE type='game' AND app_id=?
SelectBuild(t, a) == { r.build_id : r \in { x \in t : x.type = "game" /\ x.app_id = a } }

\* cursor.fetchone(): "none" for None, else the build id of the row
FetchOne(rows) == IF rows = {} THEN "none" ELSE CHOOSE bd \in rows : TRUE

\* INSERT OR REPLACE INTO steam_versions: the row in conflict on
\* UNIQUE(type, app_id) is deleted, the new row inserted
InsertOrReplaceKeepsOld(t, row) == t \cup { row }
InsertOrReplace(t, row) ==
    { r \in t : ~(r.type = row.type /\ r.app_id = row.app_id) } \cup { row }

\* what the version source answers: HTTP 200 with a build id, another status,
\* or an exception (request error, timeout, bad JSON)
FetchOutcomes ==
    { [kind |-> "ok", build |-> bd] : bd \in BuildIds }
        \cup { [kind |-> "status", build |-> "none"], [kind |-> "raise", build |-> "none"] }

\* check_steam_game_update's decision on the stored build (result) and the
\* fetched one: the return value and whether the table is written
DecideFirstRunIsUpdate(stored, steam_build) ==
    IF stored = "none" \/ stored # steam_build
    THEN [ret |-> TRUE, write |-> TRUE]
    ELSE [ret |-> FALSE, write |-> FALSE]
DecideChangeNotStored(stored, steam_build) ==
    IF stored = "none" THEN [ret |-> FALSE, write |-> TRUE]
    ELSE IF stored # steam_build THEN [ret |-> TRUE, write |-> FALSE]
    ELSE [ret |-> FALSE, write |-> FALSE]
DecideSameBuildTouched(stored, steam_build) ==
    IF stored = "none" THEN [ret |-> FALSE, write |-> TRUE]
    ELSE IF stored # steam_build THEN [ret |-> TRUE, write |-> TRUE]
    ELSE [ret |-> FALSE, write |-> TRUE]
Decide(stored, steam_build) ==
    IF stored = "none" THEN [ret |-> FALSE, write |-> TRUE]
    ELSE IF stored # steam_build THEN [ret |-> TRUE, write |-> TRUE]
    ELSE [ret |-> FALSE, write |-> FALSE]

\* PZUpdateMonitor.check_steam_game_update()
CheckSteamGameUpdate(fetch) ==
    /\ clock < MaxChecks
    /\ clock' = clock + 1
    /\ LET stored == FetchOne(SelectBuild(db, app_id))
           d == IF fetch.kind = "ok" THEN Decide(stored, fetch.build)
                ELSE [ret |-> FALSE, write |-> FALSE]
       IN  /\ db' = IF d.write
                    THEN InsertOrReplace(db, Row("game", app_id, fetch.build, clock + 1))
                    ELSE db
           /\ checked' = [n |-> clock + 1, fetched |-> fetch.build,
                          had |-> IF \E r \in db : r.type = "game" /\ r.app_id = app_id
                                  THEN (CHOOSE r \in db : r.type = "game" /\ r.app_id = app_id).build_id
                                  ELSE "none",
                          ret |-> d.ret]

NextStore ==
    \E fetch \in FetchOutcomes :
        CheckSteamGameUpdate(fetch) /\ UNCHANGED <<rconVars, schedVars, modVars, loopVars, concVars>>

InitRcon ==
    /\ socket = "none"
    /\ request_id = 0
    /\ inbox = <<>>
    /\ peerClosed = FALSE
    /\ rsent = 0
    /\ sent = <<>>
    /\ pc = "idle"
    /\ command = <<>>
    /\ full_response = <<>>
    /\ packet_count = 0
    /\ result = NoResult
    /\ stream = <<>>

\* the table as found at start-up: the file persists, so it may already hold a
\* row for this app and a row written under another configured app id
InitStore ==
    /\ db \in { t \in SUBSET { Row("game", a, bd, 0) : a \in AppIds, bd \in BuildIds } :
                  UniqueTypeAppId(t) }
    /\ clock = 0
    /\ checked = [n |-> 0, fetched |-> "none", had |-> "none", ret |-> FALSE]

----------------------------------------------------------------------------
(* The restart scheduler.  The main loop task calls handle_update_detected;   *)
(* the two threading.Timer tasks of an arming fire when their interval has    *)
(* elapsed.  Time advances in steps of one minute and never past a timer      *)
(* that is due.                                                               *)

Minute == 60
\* threading.Timer(29 * 60, send_final_warning), threading.Timer(30 * 60, do_restart)
WarningDelay == 29 * Minute
RestartDelay == 30 * Minute

\* what self.rcon.send_command("players") gives get_player_count: an
\* exception, or a text with or without "Players connected (n)"
PlayerResponses ==
    { [kind |-> "raise", marker |-> FALSE, n |-> 0],
      [kind |-> "text",  marker |-> FALSE, n |-> 0],
      [kind |-> "text",  marker |-> TRUE,  n |-> 0],
      [kind |-> "text",  marker |-> TRUE,  n |-> 2] }

\* PZUpdateMonitor.get_player_count()
GetPlayerCount(resp) ==
    IF resp.kind = "raise" THEN -1
    ELSE IF resp.marker THEN resp.n
    ELSE 0

\* what get_player_count has in hand after send_command("players") ended
\* with result r: the exception, or the text; an empty text cannot hold
\* "Players connected (", any other text may or may not
PlayersQuery(r) ==
    IF r.kind = "raised" THEN { resp \in PlayerResponses : resp.kind = "raise" }
    ELSE IF r.text = <<>> THEN { resp \in PlayerResponses : resp.kind = "text" /\ ~resp.marker }
    ELSE { resp \in PlayerResponses : resp.kind = "text" }

\* how restart_server() goes: the save command raises, systemctl fails
\* (check=True raises), or both succeed
RestartOutcomes == { "save_raises", "restart_fails", "ok" }

\* how handle_update_detected() goes: as restart_server() does, or
\* warning_timer.start() raises RuntimeError (no new thread can be started)
\* and the exception leaves handle_update_detected
HandleOutcomes == RestartOutcomes \cup { "start_fails" }

\* a command, broadcast or action issued; ok tells whether the call returned
Entry(what, by, gen) == [what |-> what, by |-> by, gen |-> gen, at |-> now, ok |-> TRUE]
\* a command whose send_command raised
Failed(entry) == [entry EXCEPT !.ok = FALSE]

\* send_server_message(): the broadcast is issued; when its send_command
\* raises, the except clause logs the error and the call returns all the same
SendServerMessage(sendOk, entry) == IF sendOk THEN entry ELSE Failed(entry)

\* restart_server(): the commands and actions it issues, in order
RestartServerLogRestartsAnyway(outcome, by, gen) ==
    IF outcome = "save_raises"
    THEN << Failed(Entry("save", by, gen)), Entry("restart", by, gen) >>
    ELSE << Entry("save", by, gen), Entry("restart", by, gen) >>
RestartServerLog(outcome, by, gen) ==
    IF outcome = "save_raises" THEN << Failed(Entry("save", by, gen)) >>
    ELSE << Entry("save", by, gen), Entry("restart", by, gen) >>

\* restart_server(): self.restart_scheduled afterwards (cleared on success only)
RestartServerFlag(outcome, flag) == IF outcome = "ok" THEN FALSE ELSE flag

\* do_restart(): the final notice, then restart_server()
DoRestartLogStopsAtFailedNotice(sendOk, outcome, gen) ==
    IF sendOk
    THEN << Entry("msg_final", "timer", gen) >> \o RestartServerLog(outcome, "timer", gen)
    ELSE << Failed(Entry("msg_final", "timer", gen)) >>
DoRestartLog(sendOk, outcome, gen) ==
    << SendServerMessage(sendOk, Entry("msg_final", "timer", gen)) >>
        \o RestartServerLog(outcome, "timer", gen)

\* the timers schedule_restart_with_warnings starts for arming number gen
WarningTimerSwapped(gen) == [fn |-> "send_final_warning", due |-> now + RestartDelay, gen |-> gen]
WarningTimer(gen) == [fn |-> "send_final_warning", due |-> now + WarningDelay, gen |-> gen]
RestartTimerAtWarning(gen) == [fn |-> "do_restart", due |-> now + WarningDelay, gen |-> gen]
RestartTimer(gen) == [fn |-> "do_restart", due |-> now + RestartDelay, gen |-> gen]

\* schedule_restart_with_warnings(): the guard on self.restart_scheduled
AlreadyScheduledIgnored(flag) == FALSE
AlreadyScheduled(flag) == flag

\* handle_update_detected(): the branch taken on the player count
BranchZeroSchedules(player_count) ==
    IF player_count = -1 THEN "skip" ELSE "schedule"
BranchUnknownRestarts(player_count) ==
    IF player_count <= 0 THEN "restart" ELSE "schedule"
Branch(player_count) ==
    IF player_count = -1 THEN "skip"
    ELSE IF player_count = 0 THEN "restart"
    ELSE "schedule"

\* PZUpdateMonitor.handle_update_detected(), with restart_server() or
\* schedule_restart_with_warnings() as called from it
HandleUpdateDetected(resp, outcome) ==
    /\ ncalls < MaxCalls
    /\ ncalls' = ncalls + 1
    /\ LET player_count == GetPlayerCount(resp)
           branch == Branch(player_count)
           gen == ncalls + 1
       IN  /\ CASE branch = "skip" ->
                     /\ outcome = "ok"
                     /\ UNCHANGED <<restart_scheduled, timers, log>>
                [] branch = "restart" ->
                     /\ outcome \in RestartOutcomes
                     /\ log' = log \o RestartServerLog(outcome, "main", 0)
                     /\ restart_scheduled' = RestartServerFlag(outcome, restart_scheduled)
                     /\ UNCHANGED timers
                [] branch = "schedule" ->
                     IF AlreadyScheduled(restart_scheduled)
                     THEN /\ outcome = "ok"
                          /\ UNCHANGED <<restart_scheduled, timers, log>>
                     ELSE /\ outcome \in { "ok", "start_fails" }
                          /\ restart_scheduled' = TRUE
                          /\ \E sendOk \in BOOLEAN :
                                log' = Append(log, SendServerMessage(sendOk,
                                                      Entry("msg_initial", "main", gen)))
                          /\ timers' = IF outcome = "ok"
                                       THEN timers \cup { WarningTimer(gen), RestartTimer(gen) }
                                       ELSE timers
           /\ last' = [step |-> "handle", count |-> player_count,
                       armed |-> restart_scheduled, timersBefore |-> timers]
    /\ UNCHANGED now

\* a timer's interval has elapsed: its function runs on the timer's thread
\* (send_final_warning, or do_restart with restart_server())
FireTimer(t, outcome) ==
    /\ t \in timers
    /\ t.due <= now
    /\ timers' = timers \ {t}
    /\ IF t.fn = "send_final_warning"
       THEN /\ outcome = "ok"
            /\ \E sendOk \in BOOLEAN :
                  log' = Append(log, SendServerMessage(sendOk,
                                        Entry("msg_warning", "timer", t.gen)))
            /\ UNCHANGED restart_scheduled
       ELSE /\ \E sendOk \in BOOLEAN : log' = log \o DoRestartLog(sendOk, outcome, t.gen)
            /\ restart_scheduled' = RestartServerFlag(outcome, restart_scheduled)
    /\ last' = [step |-> "timer", count |-> 0, armed |-> restart_scheduled,
                timersBefore |-> timers]
    /\ UNCHANGED <<now, ncalls>>

\* a minute passes; a timer that is due fires first
Tick ==
    /\ now < MaxTicks * Minute
    /\ \A t \in timers : t.due > now
    /\ now' = now + Minute
    /\ last' = [step |-> "tick", count |-> 0, armed |-> restart_scheduled,
                timersBefore |-> timers]
    /\ UNCHANGED <<restart_scheduled, timers, log, ncalls>>

\* what the scheduler's steps leave alone
schedFrame == <<rconVars, storeVars, modVars, loopVars, concVars>>

NextSched ==
    \/ \E resp \in PlayerResponses, outcome \in RestartOutcomes :
          HandleUpdateDetected(resp, outcome) /\ UNCHANGED schedFrame
    \/ \E t \in timers, outcome \in RestartOutcomes :
          FireTimer(t, outcome) /\ UNCHANGED schedFrame
    \/ Tick /\ UNCHANGED schedFrame

\* PZUpdateMonitor.__init__: restart_timer = None, restart_scheduled = False
InitSched ==
    /\ restart_scheduled = FALSE
    /\ timers = {}
    /\ now = 0
    /\ log = <<>>
    /\ ncalls = 0
    /\ last = [step |-> "none", count |-> 0, armed |-> FALSE, timersBefore |-> {}]

----------------------------------------------------------------------------
(* The mod check: check_server_mods_need_update scans the lines of the       *)
(* server log for what the server wrote after the checkModsNeedUpdate         *)
(* command.                                                                   *)

\* the patterns the scan looks for
CHECK_MARKER == "CheckModsNeedUpdate:"
MODS_UPDATED == "CheckModsNeedUpdate: Mods updated."
MODS_NEED_UPDATE == "CheckModsNeedUpdate: Mods need update."
MODS_CHECKING == "CheckModsNeedUpdate: Checking...."
NEEDS_UPDATING == "Needs updating"
MOD_ == "Mod "

\* the lines a log may hold: other output, the three marker lines, a marker
\* line with other text, a line naming a mod that needs updating, and a line
\* with "Needs updating" that names no mod
LogLines ==
    { "LOG  : General > Server started",
      "LOG  : General > CheckModsNeedUpdate: Mods updated.",
      "LOG  : General > CheckModsNeedUpdate: Mods need update.",
      "LOG  : General > CheckModsNeedUpdate: Checking....",
      "LOG  : General > CheckModsNeedUpdate: ",
      "LOG  : General > Mod 2313387159 Needs updating",
      "LOG  : General > Workshop item Needs updating" }

\* pattern in line (substring test), for the lines and patterns above
Contains(pattern, line) ==
    CASE pattern = CHECK_MARKER ->
           line \in { "LOG  : General > CheckModsNeedUpdate: Mods updated.",
                      "LOG  : General > CheckModsNeedUpdate: Mods need update.",
                      "LOG  : General > CheckModsNeedUpdate: Checking....",
                      "LOG  : General > CheckModsNeedUpdate: " }
      [] pattern = MODS_UPDATED ->
           line = "LOG  : General > CheckModsNeedUpdate: Mods updated."
      [] pattern = MODS_NEED_UPDATE ->
           line = "LOG  : General > CheckModsNeedUpdate: Mods need update."
      [] pattern = MODS_CHECKING ->
           line = "LOG  : General > CheckModsNeedUpdate: Checking...."
      [] pattern = NEEDS_UPDATING ->
           line \in { "LOG  : General > Mod 2313387159 Needs updating",
                      "LOG  : General > Workshop item Needs updating" }
      [] pattern = MOD_ ->
           line = "LOG  : General > Mod 2313387159 Needs updating"

\* check_lines: the lines with a CheckModsNeedUpdate response
CheckLines(logs) == SelectSeq(logs, LAMBDA line : Contains(CHECK_MARKER, line))

\* mod_update_lines: the "Mod xxx Needs updating" lines
ModUpdateLines(logs) ==
    SelectSeq(logs, LAMBDA line : Contains(NEEDS_UPDATING, line) /\ Contains(MOD_, line))

\* the line the verdict is read from: check_lines[-1]
LatestResponseFirst(check_lines) == check_lines[1]
LatestResponse(check_lines) == check_lines[Len(check_lines)]

\* what the call returns; at and logs (ghost) tell which return statement it
\* was and which reading of the log it judged
Verdict(ret, at, logs) == [ret |-> ret, at |-> at, logs |-> logs]

\* the scan for "Mod xxx Needs updating" lines and the final return
ModUpdateScan(logs) ==
    IF ModUpdateLines(logs) # <<>> THEN Verdict(TRUE, "mod_lines", logs)
    ELSE Verdict(FALSE, "none", logs)

\* the branch taken when the latest response is "Checking....": the log is
\* read again (logs2) and its latest response examined
StillCheckingGivesUp(io, logs2) ==
    LET check_lines == CheckLines(logs2)
    IN  IF io = "reread_raises" THEN Verdict(FALSE, "except", <<>>)
        ELSE IF check_lines # <<>> /\ Contains(MODS_UPDATED, LatestResponse(check_lines))
        THEN Verdict(FALSE, "rescan_updated", logs2)
        ELSE IF check_lines # <<>> /\ Contains(MODS_NEED_UPDATE, LatestResponse(check_lines))
        THEN Verdict(TRUE, "rescan_need", logs2)
        ELSE Verdict(FALSE, "none", logs2)
StillChecking(io, logs2) ==
    LET check_lines == CheckLines(logs2)
    IN  IF io = "reread_raises" THEN Verdict(FALSE, "except", <<>>)
        ELSE IF check_lines # <<>> /\ Contains(MODS_UPDATED, LatestResponse(check_lines))
        THEN Verdict(FALSE, "rescan_updated", logs2)
        ELSE IF check_lines # <<>> /\ Contains(MODS_NEED_UPDATE, LatestResponse(check_lines))
        THEN Verdict(TRUE, "rescan_need", logs2)
        ELSE ModUpdateScan(logs2)

\* what can go wrong inside the call: send_command("checkModsNeedUpdate")
\* raises, or get_recent_log_content raises at the first or at the second
\* reading (find_server_log_files sorts by os.path.getmtime, outside the
\* reader's own try blocks)
ModCheckOutcomes == { "ok", "rcon_raises", "log_raises", "reread_raises" }

\* `if not recent_logs`: get_recent_log_content returned no line at all, which
\* it does exactly when no log file could be read and the journal gave nothing
\* (a file that is read contributes at least one, possibly empty, line)
NoLogsNever(logs) == FALSE
NoLogs(logs) == logs = <<>>

\* the exceptions raised before any line of the log is examined
RaisesBeforeScanOnlyRcon(io) == io = "rcon_raises"
RaisesBeforeScan(io) == io \in {"rcon_raises", "log_raises"}

\* PZUpdateMonitor.check_server_mods_need_update(): io is what went wrong,
\* logs1 and logs2 what get_recent_log_content returns at the first and at
\* the second reading
CheckServerModsNeedUpdate(io, logs1, logs2) ==
    IF RaisesBeforeScan(io) THEN Verdict(FALSE, "except", <<>>)
    ELSE IF NoLogs(logs1) THEN Verdict(FALSE, "no_logs", logs1)
    ELSE LET check_lines == CheckLines(logs1)
         IN  IF check_lines = <<>> THEN Verdict(FALSE, "no_marker", logs1)
             ELSE IF Contains(MODS_UPDATED, LatestResponse(check_lines))
             THEN Verdict(FALSE, "updated", logs1)
             ELSE IF Contains(MODS_NEED_UPDATE, LatestResponse(check_lines))
             THEN Verdict(TRUE, "need", logs1)
             ELSE IF Contains(MODS_CHECKING, LatestResponse(check_lines))
             THEN StillChecking(io, logs2)
             ELSE ModUpdateScan(logs1)

\* one call of check_server_mods_need_update on the log as it is
ModCheck(io) ==
    /\ modcheck.n = 0
    /\ LET v == CheckServerModsNeedUpdate(io, recent_logs, later_logs)
       IN  modcheck' = [n |-> 1, io |-> io, ret |-> v.ret, at |-> v.at,
                        scanned |-> v.logs]
    /\ UNCHANGED <<recent_logs, later_logs>>
    /\ UNCHANGED <<rconVars, storeVars, schedVars, loopVars, concVars>>

NextMods == \E io \in ModCheckOutcomes : ModCheck(io)

\* the log windows of at most n lines
Windows(n) == UNION { [1..k -> LogLines] : k \in 0..n }

\* no mod check has run
NoModCheck == [n |-> 0, io |-> "ok", ret |-> FALSE, at |-> "none", scanned |-> <<>>]

\* the log at the two readings: between them the server may have written a
\* line, and the oldest line may have left the part of the file that is read
InitMods ==
    /\ recent_logs \in Windows(MaxLines)
    /\ later_logs \in { kept \o more :
                          kept \in { recent_logs } \cup
                                   (IF recent_logs = <<>> THEN {} ELSE { Tail(recent_logs) }),
                          more \in Windows(1) }
    /\ modcheck = NoModCheck

\* an empty log, for the specifications that do not run the mod check
EmptyLog ==
    /\ recent_logs = <<>>
    /\ later_logs = <<>>
    /\ modcheck = NoModCheck

----------------------------------------------------------------------------
(* The monitor loop: run_monitor_loop on the main task, with the timers of    *)
(* the restart scheduler firing on their own threads.  Each statement of the  *)
(* loop body is one step; the stop signal (KeyboardInterrupt) may arrive      *)
(* between any two of them and during the sleeps.                             *)

\* self.check_interval (fallback) and the pause after a failed cycle, seconds
check_interval == 300
CooldownDelay == 60

\* how test_server_connection() goes: its send_command("players") returns
\* text, returns '' (no packet before the timeout) or raises, or the command
\* returns and the search for log files raises
TestOutcomes == { "text", "empty", "raise", "log_raises" }

\* test_server_connection()'s return value: rcon_working is True whenever
\* send_command returned (it never returns None), the except clause gives False
TestServerConnectionTrue(outcome) == TRUE
TestServerConnectionReturns(outcome) == outcome \in { "text", "empty" }

\* how test_server_connection() goes when its send_command("players") ended
\* with result r and the search for log files does not raise
ProbeOutcome(r) ==
    IF r.kind = "raised" THEN "raise"
    ELSE IF r.text = <<>> THEN "empty"
    ELSE "text"

\* positions of the main task inside the try block of the while loop
TryPositions == { "build", "mods", "handle", "sleep" }
\* positions at which run_monitor_loop has ended
EndPositions == { "refused", "stopped", "interrupted" }

\* the program calls run_monitor_loop()
RunMonitorLoop ==
    /\ lpc = "new"
    /\ lpc' = "test"
    /\ UNCHANGED <<check_mods, game_updated, mods_need_update, wake, tests, steps>>
    /\ UNCHANGED <<rconVars, storeVars, schedVars, modVars, concVars>>

\* if not self.test_server_connection(): return
TestServerConnection(outcome) ==
    /\ lpc = "test"
    /\ tests' = tests + 1
    /\ socket' = IF outcome = "raise" THEN "none" ELSE "open"
    /\ lpc' = IF TestServerConnectionReturns(outcome) THEN "build" ELSE "refused"
    /\ UNCHANGED <<check_mods, game_updated, mods_need_update, wake, steps>>
    /\ UNCHANGED <<request_id, inbox, peerClosed, rsent, sent, pc, command,
                   full_response, packet_count, result, stream>>
    /\ UNCHANGED <<storeVars, schedVars, modVars, concVars>>

\* game_updated = self.check_steam_game_update(); mods_need_update = False
LoopBuild(fetch) ==
    /\ lpc = "build"
    /\ CheckSteamGameUpdate(fetch)
    /\ game_updated' = checked'.ret
    /\ mods_need_update' = FALSE
    /\ steps' = << "build" >>
    /\ lpc' = IF check_mods THEN "mods" ELSE "handle"
    /\ UNCHANGED <<check_mods, wake, tests>>
    /\ UNCHANGED <<rconVars, schedVars, modVars, concVars>>

\* mods_need_update = self.check_server_mods_need_update()
LoopMods(io, logs1, logs2) ==
    /\ lpc = "mods"
    /\ mods_need_update' = CheckServerModsNeedUpdate(io, logs1, logs2).ret
    /\ socket' = IF io = "rcon_raises" THEN "none" ELSE "open"
    /\ steps' = Append(steps, "mods")
    /\ lpc' = "handle"
    /\ UNCHANGED <<check_mods, game_updated, wake, tests>>
    /\ UNCHANGED <<request_id, inbox, peerClosed, rsent, sent, pc, command,
                   full_response, packet_count, result, stream>>
    /\ UNCHANGED <<storeVars, schedVars, modVars, concVars>>

\* the connection after handle_update_detected: the player query, the save
\* command or the broadcast that raised has closed it
ConnAfterHandle(resp, outcome) ==
    LET branch == Branch(GetPlayerCount(resp))
    IN  IF resp.kind = "raise" THEN { "open", "none" }
        ELSE IF branch = "restart"
        THEN (IF outcome = "save_raises" THEN { "none" } ELSE { "open" })
        ELSE IF branch = "schedule" /\ ~AlreadyScheduled(restart_scheduled)
        THEN { "open", "none" }
        ELSE { "open" }

\* the if / elif of the cycle: the handler is called when either check
\* reported an update
UpdateSignalledGameOnly(game, mods) == game
UpdateSignalled(game, mods) == game \/ mods

\* if game_updated: handle_update_detected() elif mods_need_update:
\* handle_update_detected(); then time.sleep(self.check_interval) begins, or
\* the exception is caught by except Exception and time.sleep(60) begins
LoopHandle(resp, outcome) ==
    /\ lpc = "handle"
    /\ UpdateSignalled(game_updated, mods_need_update)
    /\ HandleUpdateDetected(resp, outcome)
    /\ socket' \in ConnAfterHandle(resp, outcome)
    /\ steps' = Append(steps, "handle")
    /\ lpc' = IF outcome = "start_fails" THEN "cooldown" ELSE "sleep"
    /\ wake' = now + (IF outcome = "start_fails" THEN CooldownDelay ELSE check_interval)
    /\ UNCHANGED <<check_mods, game_updated, mods_need_update, tests>>
    /\ UNCHANGED <<request_id, inbox, peerClosed, rsent, sent, pc, command,
                   full_response, packet_count, result, stream>>
    /\ UNCHANGED <<storeVars, modVars, concVars>>

\* neither check reported an update: time.sleep(self.check_interval) begins
LoopNoUpdate ==
    /\ lpc = "handle"
    /\ ~UpdateSignalled(game_updated, mods_need_update)
    /\ lpc' = "sleep"
    /\ wake' = now + check_interval
    /\ UNCHANGED <<check_mods, game_updated, mods_need_update, tests, steps>>
    /\ UNCHANGED <<rconVars, storeVars, schedVars, modVars, concVars>>

\* time.sleep returns: the while loop begins its next cycle
LoopWake ==
    /\ lpc \in { "sleep", "cooldown" }
    /\ wake <= now
    /\ clock < MaxChecks
    /\ lpc' = "build"
    /\ UNCHANGED <<check_mods, game_updated, mods_need_update, wake, tests, steps>>
    /\ UNCHANGED <<rconVars, storeVars, schedVars, modVars, concVars>>

\* KeyboardInterrupt reaches the main task.  Inside the try block it is caught
\* (break, then self.rcon.close()); in the except Exception handler's sleep and
\* in test_server_connection no handler catches it and it leaves
\* run_monitor_loop.
StopSignalCaught(position) == position \in TryPositions
StopSignal ==
    /\ lpc \in TryPositions \cup { "cooldown", "test" }
    /\ IF StopSignalCaught(lpc)
       THEN /\ lpc' = "stopped"
            /\ Released
       ELSE /\ lpc' = "interrupted"
            /\ UNCHANGED <<socket, inbox, peerClosed, rsent>>
    /\ UNCHANGED <<check_mods, game_updated, mods_need_update, wake, tests, steps>>
    /\ UNCHANGED <<request_id, sent, pc, command, full_response, packet_count,
                   result, stream>>
    /\ UNCHANGED <<storeVars, schedVars, modVars, concVars>>

\* the connection after a timer's function: a broadcast that raised has closed
\* it, and so has the save command
ConnAfterTimer(t, outcome) ==
    IF t.fn = "do_restart"
    THEN (IF outcome = "save_raises" THEN { "none" } ELSE { "open" })
    ELSE { "open", "none" }

\* a timer fires on its thread while the main task is wherever it is
LoopFireTimer(t, outcome) ==
    /\ FireTimer(t, outcome)
    /\ socket' \in ConnAfterTimer(t, outcome)
    /\ UNCHANGED <<request_id, inbox, peerClosed, rsent, sent, pc, command,
                   full_response, packet_count, result, stream>>
    /\ UNCHANGED <<storeVars, modVars, loopVars, concVars>>

\* a minute passes while the main task sleeps or after it has ended
LoopTick ==
    /\ lpc \in { "sleep", "cooldown" } \cup EndPositions
    /\ (lpc \in { "sleep", "cooldown" } /\ clock < MaxChecks) => wake > now
    /\ Tick
    /\ UNCHANGED <<rconVars, storeVars, modVars, loopVars, concVars>>

NextLoop ==
    \/ RunMonitorLoop
    \/ \E outcome \in TestOutcomes : TestServerConnection(outcome)
    \/ \E fetch \in FetchOutcomes : LoopBuild(fetch)
    \/ \E io \in ModCheckOutcomes, logs1 \in Windows(1), more \in Windows(1) :
          LoopMods(io, logs1, logs1 \o more)
    \/ \E resp \in PlayerResponses, outcome \in HandleOutcomes : LoopHandle(resp, outcome)
    \/ LoopNoUpdate
    \/ LoopWake
    \/ StopSignal
    \/ \E t \in timers, outcome \in RestartOutcomes : LoopFireTimer(t, outcome)
    \/ LoopTick

\* run_monitor_loop has not been called
LoopNotRun ==
    /\ lpc = "new"
    /\ check_mods = TRUE
    /\ game_updated = FALSE
    /\ mods_need_update = FALSE
    /\ wake = 0
    /\ tests = 0
    /\ steps = <<>>

\* the monitor as constructed: check_mods is read from the configuration
InitLoop ==
    /\ lpc = "new"
    /\ check_mods \in BOOLEAN
    /\ game_updated = FALSE
    /\ mods_need_update = FALSE
    /\ wake = 0
    /\ tests = 0
    /\ steps = <<>>

\* an empty table, for the specifications that do not run the build check
EmptyStore ==
    /\ db = {}
    /\ clock = 0
    /\ checked = [n |-> 0, fetched |-> "none", had |-> "none", ret |-> FALSE]

----------------------------------------------------------------------------
(* One RCONClient shared by the main task and a timer task.  The monitor     *)
(* loop and the functions run by threading.Timer call send_command on the    *)
(* same client object and take no lock, so their statements interleave.      *)

MaxSockets == 2

Tasks == {"main", "timer"}

\* an object is referenced by self.socket or by the call a task is blocked in
Referenced(o, ref, holds) == o = ref \/ \E u \in Tasks : holds[u] = o

\* a socket object that loses its last reference is deallocated, which closes it
Collect(socks, ref, holds) == { o \in socks : Referenced(o, ref, holds) }

\* send_command, line 56: the task tests self.socket and then either connects
\* or goes on to write the command
CallBegin(t) ==
    /\ tpc[t] = "idle"
    /\ Len(written) < MaxRequestId
    /\ tpc' = [tpc EXCEPT ![t] = IF sockref = 0 THEN "new" ELSE "cmd_load"]
    /\ UNCHANGED <<sockref, live, connected, nextsock, tsock, tload, written, request_id>>

\* connect, line 36: a new socket object is created and stored in self.socket,
\* whatever self.socket refers to by now
NewSocket(t) ==
    /\ tpc[t] = "new"
    /\ nextsock < MaxSockets
    /\ nextsock' = nextsock + 1
    /\ sockref' = nextsock + 1
    /\ live' = Collect(live \cup {nextsock + 1}, nextsock + 1, tsock)
    /\ connected' = connected \cap live'
    /\ tpc' = [tpc EXCEPT ![t] = "connect"]
    /\ UNCHANGED <<tsock, tload, written, request_id>>

\* connect, lines 37-38: the task reads self.socket and blocks in its connect()
ConnectBegin(t) ==
    /\ tpc[t] = "connect"
    /\ IF sockref = 0
       THEN /\ tpc' = [tpc EXCEPT ![t] = "connect_except"]
            /\ tsock' = tsock
       ELSE /\ tpc' = [tpc EXCEPT ![t] = "connecting"]
            /\ tsock' = [tsock EXCEPT ![t] = sockref]
    /\ UNCHANGED <<sockref, live, connected, nextsock, tload, written, request_id>>

\* the blocking connect() returns or raises; the call's reference is dropped
ConnectEnd(t, ok) ==
    /\ tpc[t] = "connecting"
    /\ tsock' = [tsock EXCEPT ![t] = 0]
    /\ live' = Collect(live, sockref, tsock')
    /\ IF ok /\ tsock[t] \in live
       THEN /\ connected' = (connected \cup {tsock[t]}) \cap live'
            /\ tpc' = [tpc EXCEPT ![t] = "auth_load"]
       ELSE /\ connected' = connected \cap live'
            /\ tpc' = [tpc EXCEPT ![t] = "connect_except"]
    /\ UNCHANGED <<sockref, nextsock, tload, written, request_id>>

\* _send_packet, line 102: self.request_id += 1 first loads the attribute ...
SendPacketLoad(t) ==
    /\ tpc[t] \in {"auth_load", "cmd_load"}
    /\ request_id < MaxRequestId
    /\ tload' = [tload EXCEPT ![t] = request_id]
    /\ tpc' = [tpc EXCEPT ![t] = IF tpc[t] = "auth_load" THEN "auth_store" ELSE "cmd_store"]
    /\ UNCHANGED <<sockref, live, connected, nextsock, tsock, written, request_id>>

\* ... and then stores the loaded value plus one
SendPacketStore(t) ==
    /\ tpc[t] \in {"auth_store", "cmd_store"}
    /\ request_id' = tload[t] + 1
    /\ tpc' = [tpc EXCEPT ![t] = IF tpc[t] = "auth_store" THEN "auth_send" ELSE "cmd_send"]
    /\ UNCHANGED <<sockref, live, connected, nextsock, tsock, tload, written>>

\* _send_packet, lines 103-108: the frame is packed with the current
\* self.request_id and written to the current self.socket
SendPacketWrite(t, ok) ==
    /\ tpc[t] \in {"auth_send", "cmd_send"}
    /\ IF ok /\ sockref \in connected
       THEN /\ written' = Append(written, [id |-> request_id,
                                     type |-> IF tpc[t] = "auth_send" THEN SERVERDATA_AUTH
                                              ELSE SERVERDATA_EXECCOMMAND,
                                     sock |-> sockref, by |-> t])
            /\ tpc' = [tpc EXCEPT ![t] = IF tpc[t] = "auth_send" THEN "auth_recv" ELSE "reading"]
       ELSE /\ written' = written
            /\ tpc' = [tpc EXCEPT ![t] = IF tpc[t] = "auth_send" THEN "connect_except"
                                         ELSE "send_except"]
    /\ UNCHANGED <<sockref, live, connected, nextsock, tsock, tload, request_id>>

\* _receive_packet, line 113: the task reads self.socket and blocks in recv()
ReceiveBegin(t) ==
    /\ tpc[t] \in {"auth_recv", "reading"}
    /\ IF sockref = 0
       THEN /\ tpc' = [tpc EXCEPT ![t] = IF tpc[t] = "auth_recv" THEN "connect_except" ELSE "idle"]
            /\ tsock' = tsock
       ELSE /\ tpc' = [tpc EXCEPT ![t] = IF tpc[t] = "auth_recv" THEN "auth_wait" ELSE "read_wait"]
            /\ tsock' = [tsock EXCEPT ![t] = sockref]
    /\ UNCHANGED <<sockref, live, connected, nextsock, tload, written, request_id>>

ReceiveOutcomes == {"packet", "last", "raise"}

\* recv() returns or raises.  In connect a packet (with a good id) ends the
\* authentication; in send_command's read loop a packet with text continues
\* the loop and an empty one, a timeout or an error ends the call
ReceiveEnd(t, outcome) ==
    /\ tpc[t] \in {"auth_wait", "read_wait"}
    /\ tsock' = [tsock EXCEPT ![t] = 0]
    /\ live' = Collect(live, sockref, tsock')
    /\ connected' = connected \cap live'
    /\ LET got == IF tsock[t] \in connected THEN outcome ELSE "raise"
       IN  tpc' = [tpc EXCEPT ![t] =
                    IF tpc[t] = "auth_wait"
                    THEN (IF got = "packet" THEN "cmd_load" ELSE "connect_except")
                    ELSE (IF got = "packet" THEN "reading" ELSE "idle")]
    /\ UNCHANGED <<sockref, nextsock, tload, written, request_id>>

\* connect's except clause (lines 48-52) and send_command's (lines 96-98, close
\* at 133-137): whatever self.socket refers to is closed and forgotten, and
\* the exception goes to the caller
ExceptClose(t) ==
    /\ tpc[t] \in {"connect_except", "send_except"}
    /\ live' = live \ {sockref}
    /\ connected' = connected \ {sockref}
    /\ sockref' = 0
    /\ tpc' = [tpc EXCEPT ![t] = "idle"]
    /\ UNCHANGED <<nextsock, tsock, tload, written, request_id>>

concFrame == <<socket, inbox, peerClosed, rsent, sent, pc, command, full_response,
               packet_count, result, stream,
               storeVars, schedVars, modVars, loopVars>>

NextShared ==
    \/ \E t \in Tasks : CallBegin(t) /\ UNCHANGED concFrame
    \/ \E t \in Tasks : NewSocket(t) /\ UNCHANGED concFrame
    \/ \E t \in Tasks : ConnectBegin(t) /\ UNCHANGED concFrame
    \/ \E t \in Tasks, ok \in BOOLEAN : ConnectEnd(t, ok) /\ UNCHANGED concFrame
    \/ \E t \in Tasks : SendPacketLoad(t) /\ UNCHANGED concFrame
    \/ \E t \in Tasks : SendPacketStore(t) /\ UNCHANGED concFrame
    \/ \E t \in Tasks, ok \in BOOLEAN : SendPacketWrite(t, ok) /\ UNCHANGED concFrame
    \/ \E t \in Tasks : ReceiveBegin(t) /\ UNCHANGED concFrame
    \/ \E t \in Tasks, outcome \in ReceiveOutcomes : ReceiveEnd(t, outcome) /\ UNCHANGED concFrame
    \/ \E t \in Tasks : ExceptClose(t) /\ UNCHANGED concFrame

\* the client as constructed (lines 26-31), no task inside send_command
InitShared ==
    /\ sockref = 0
    /\ live = {}
    /\ connected = {}
    /\ nextsock = 0
    /\ tpc = [t \in Tasks |-> "idle"]
    /\ tsock = [t \in Tasks |-> 0]
    /\ tload = [t \in Tasks |-> 0]
    /\ written = <<>>

InitR == InitRcon /\ EmptyStore /\ InitSched /\ EmptyLog /\ LoopNotRun /\ InitShared
InitS == InitRcon /\ InitStore /\ InitSched /\ EmptyLog /\ LoopNotRun /\ InitShared
InitM == InitRcon /\ EmptyStore /\ InitSched /\ InitMods /\ LoopNotRun /\ InitShared
InitL == InitRcon /\ EmptyStore /\ InitSched /\ EmptyLog /\ InitLoop /\ InitShared

SpecRcon == InitR /\ [][NextRcon]_vars

SpecStore == InitS /\ [][NextStore]_vars

SpecSched == InitR /\ [][NextSched]_vars

SpecMods == InitM /\ [][NextMods]_vars

SpecLoop == InitL /\ [][NextLoop]_vars

SpecShared == InitR /\ [][NextShared]_vars

\* the two detection paths of a cycle, on a start-up table and a short log
InitDetect ==
    /\ recent_logs \in Windows(1)
    /\ later_logs \in { recent_logs \o more : more \in Windows(1) }
    /\ modcheck = NoModCheck

InitD == InitRcon /\ InitStore /\ InitSched /\ InitDetect /\ LoopNotRun /\ InitShared

NextDetect == NextStore \/ NextMods

SpecDetect == InitD /\ [][NextDetect]_vars

----------------------------------------------------------------------------
(* Properties of the protocol client (checked under SpecRcon) *)

\* the text a reader accumulates from the arrivals s: bodies in arrival order
\* up to the first arrival that is not a text packet, at most n packets
RECURSIVE Accumulated(_, _)
Accumulated(s, n) ==
    IF s = <<>> \/ n = 0 THEN <<>>
    ELSE IF Head(s).kind # "pkt" \/ Head(s).body = <<>> THEN <<>>
    ELSE Head(s).body \o Accumulated(Tail(s), n - 1)

SendCommandDone == pc = "idle" /\ result.op = "send_command"

\* C1 as stated: when send_command returns (no read error), the text is the
\* concatenation, in arrival order, of the bodies of all packets that arrived
\* before the first zero-length-body packet or the first read timeout.
C1_AllBodiesBeforeEmptyOrTimeout ==
    (SendCommandDone /\ result.kind = "returned" /\ result.why # "error")
        => result.text = Accumulated(stream, Len(stream) + 1)

\* C1 amended: whenever send_command returns, the text is the concatenation, in
\* arrival order, of the bodies (as the remote wrote them, terminators
\* stripped) of the packets that arrived before the first zero-length-body
\* packet, the first read timeout or read error, and of no more than the first
\* max_packets (10) packets.
C1_TextIsBodiesUpToCap ==
    (SendCommandDone /\ result.kind = "returned")
        => result.text = Accumulated(stream, max_packets)

\* the read loop stopped at the cap with an eleventh packet already arrived
C1_Witness ==
    /\ SendCommandDone
    /\ result.why = "cap"
    /\ Len(stream) > max_packets
    /\ Len(result.text) > max_packets

\* C2: in connect(), when the response packet read carries request id -1, the
\* call raises the authentication error and no socket is held; no command
\* packet is sent; the next send_command starts with a new connect().
C2_AuthFailureRaisesAndDisconnects ==
    /\ [][ (pc = "auth" /\ pc' # "auth" /\ inbox # <<>> /\ Head(inbox).kind = "pkt"
               /\ Head(inbox).rid = -1)
           => (/\ result'.kind = "raised"
               /\ result'.why = "auth"
               /\ socket' = "none"
               /\ pc' = "idle"
               /\ sent' = sent) ]_vars
    /\ [][ (pc = "idle" /\ result.why = "auth" /\ pc' # "idle")
           => (/\ pc' = "auth"
               /\ sent' = Append(sent, SendPacketBytes(request_id', SERVERDATA_AUTH, Password))) ]_vars

\* a send_command that began after an authentication failure is in connect()
C2_Witness ==
    /\ pc = "auth"
    /\ Len(sent) = 2
    /\ sent[1] = SendPacketBytes(1, SERVERDATA_AUTH, Password)
    /\ sent[2] = SendPacketBytes(2, SERVERDATA_AUTH, Password)
    /\ inbox # <<>> /\ Head(inbox).rid = -1

\* C3 as stated: an error (not a timeout) while send_command reads response
\* packets ends the call by raising, with the connection closed.
C3_ReadErrorClosesAndRaises ==
    (SendCommandDone /\ result.why = "error")
        => (result.kind = "raised" /\ socket = "none")

\* the fields of a frame the client has written, by their place on the wire
FrameSize(w) == UnpackI32(SubSeq(w, 1, 4))
FrameId(w)   == UnpackI32(SubSeq(w, 5, 8))
FrameType(w) == UnpackI32(SubSeq(w, 9, 12))
FrameBody(w) == SubSeq(w, 13, Len(w) - 2)
LastSent(q)  == q[Len(q)]

\* C16: a send_command called with no socket held first connects and writes
\* the Auth packet; the command packet is written only after the response to
\* it has been read and accepted; when connect() fails (no connection, the
\* Auth packet not sent, no or a bad or a refusing response) the call raises
\* with no command packet written and no socket held.
C16_ConnectsBeforeCommand ==
    /\ [][ (pc = "idle" /\ socket = "none" /\ pc' # "idle")
           => (/\ pc' = "auth"
               /\ socket' = "open"
               /\ Len(sent') = Len(sent) + 1
               /\ FrameType(LastSent(sent')) = 3
               /\ FrameBody(LastSent(sent')) = Password) ]_vars
    /\ [][ (pc = "idle" /\ socket = "none" /\ pc' = "idle" /\ result'.op = "send_command")
           => (result'.kind = "raised" /\ sent' = sent /\ socket' = "none") ]_vars
    /\ [][ (pc = "auth" /\ sent' # sent)
           => (/\ inbox # <<>>
               /\ Head(inbox).kind = "pkt" /\ Head(inbox).rid # -1
               /\ Len(sent') = Len(sent) + 1
               /\ FrameType(LastSent(sent')) = 2
               /\ FrameBody(LastSent(sent')) = command
               /\ pc' = "reading") ]_vars
    /\ [][ (pc = "auth" /\ result'.kind = "raised")
           => (sent' = sent /\ socket' = "none" /\ pc' = "idle") ]_vars

\* after a connection that ended in an error, a send_command has connected
\* anew, authenticated and written its command
C16_Witness ==
    /\ pc = "reading"
    /\ socket = "open"
    /\ Len(sent) = 3
    /\ FrameType(sent[1]) = 3
    /\ FrameType(sent[2]) = 3
    /\ FrameType(sent[3]) = 2

\* C17 as stated: the request ids are per connection: the counter starts
\* at 0 on each connection, so that the Auth packet, the first of its
\* connection, carries the first id, and each command packet carries the id
\* after that of the packet written before it.
C17_RequestIdsRestartPerConnection ==
    \A i \in 1..Len(sent) :
        /\ FrameType(sent[i]) = 3 => FrameId(sent[i]) = 1
        /\ (FrameType(sent[i]) = 2 /\ i > 1) => FrameId(sent[i]) = FrameId(sent[i - 1]) + 1

\* C18: every packet written is the size field, the request id, the type, the
\* body and two NUL bytes; the size field counts everything after itself,
\* that is 8 + len(body) + 2; connect() writes type 3 with the password as
\* body, send_command type 2 with the command as body.
C18_FramesWellFormed ==
    /\ [](\A i \in 1..Len(sent) :
            LET w == sent[i]
            IN  /\ Len(w) >= 14
                /\ FrameSize(w) = Len(w) - 4
                /\ FrameSize(w) = 8 + Len(FrameBody(w)) + 2
                /\ w[Len(w) - 1] = 0 /\ w[Len(w)] = 0
                /\ FrameId(w) >= 1
                /\ FrameType(w) \in { 2, 3 }
                /\ FrameType(w) = 3 => FrameBody(w) = Password
                /\ FrameType(w) = 2 => FrameBody(w) \in Commands)
    /\ [][ (pc # "auth" /\ pc' = "auth")
           => (sent' # sent /\ FrameType(LastSent(sent')) = 3) ]_vars
    /\ [][ (pc # "reading" /\ pc' = "reading")
           => (/\ sent' # sent
               /\ FrameType(LastSent(sent')) = 2
               /\ FrameBody(LastSent(sent')) = command') ]_vars

\* an Auth packet and two command packets have been written
C18_Witness ==
    /\ Len(sent) = 3
    /\ FrameType(sent[1]) = 3 /\ FrameSize(sent[1]) = 12
    /\ FrameType(sent[2]) = 2 /\ FrameSize(sent[2]) = 11
    /\ FrameType(sent[3]) = 2 /\ FrameId(sent[3]) = 3

\* C19: when connect() fails, at the connection, at the sending of the Auth
\* packet or at the reading of the response, the call ends at once by raising,
\* with no socket held and nothing more written: no second attempt is made.
C19_ConnectErrorReleasesAndRaises ==
    /\ [][ (pc = "idle" /\ socket = "none" /\ result'.op = "send_command" /\ pc' = "idle")
           => (/\ result'.kind = "raised"
               /\ result'.why \in { "connect", "auth_send" }
               /\ socket' = "none" /\ inbox' = <<>>
               /\ sent' = sent) ]_vars
    /\ [][ (pc = "auth" /\ pc' # "auth"
               /\ (inbox = <<>> \/ Head(inbox).kind = "bad" \/ Head(inbox).rid = -1))
           => (/\ result'.kind = "raised"
               /\ pc' = "idle"
               /\ socket' = "none" /\ inbox' = <<>>
               /\ sent' = sent) ]_vars
    /\ []((pc = "idle" /\ result.kind = "raised") => socket = "none")

\* the response to the Auth packet did not come: the call has raised on the
\* timeout and the client holds no socket
C19_Witness ==
    /\ pc = "idle"
    /\ result.kind = "raised" /\ result.why = "timeout"
    /\ socket = "none"
    /\ Len(sent) = 1
    /\ FrameType(sent[1]) = 3

\* this step is a call of close()
CloseStep == pc = "idle" /\ result'.op = "close" /\ result' # result

\* C20: close() returns with no socket held, from a client that holds one
\* (which it releases) and from one that holds none; it writes nothing and
\* takes no request id; a close() right after a close() changes nothing.
C20_CloseIdempotent ==
    /\ [][ CloseStep
           => (/\ result'.kind = "returned"
               /\ socket' = "none" /\ inbox' = <<>>
               /\ pc' = "idle"
               /\ request_id' = request_id /\ sent' = sent
               /\ (socket = "open") = (result'.why = "released")) ]_vars
    /\ [][ (CloseStep /\ result.op = "close")
           => UNCHANGED <<socket, request_id, inbox, peerClosed, rsent, sent, pc,
                          command, full_response, packet_count, stream>> ]_vars
    /\ [](result.op = "close" => socket = "none")

\* close() has been called on the client that a close() had just disconnected
C20_Witness ==
    /\ result.op = "close" /\ result.why = "again"
    /\ socket = "none"
    /\ Len(sent) >= 2

\* this step is one turn of the read loop that received a packet
PacketRead == pc = "reading" /\ inbox # <<>> /\ inbox' = Tail(inbox) /\ rsent' = rsent

\* C21: send_command's read loop receives at most max_packets (10) packets:
\* every turn that receives one either counts it or ends the call, the turn
\* that counts the tenth ends the call by returning, and this also when more
\* non-empty packets are waiting.
C21_AtMostTenPacketsRead ==
    /\ [](packet_count <= 10)
    /\ [](pc = "reading" => packet_count < 10)
    /\ [][ PacketRead => (packet_count' = packet_count + 1 \/ pc' = "idle") ]_vars
    /\ [][ (PacketRead /\ packet_count = 10 - 1)
           => (pc' = "idle" /\ result'.kind = "returned" /\ socket' = "open") ]_vars

\* the call has returned after ten packets while the remote's next non-empty
\* packets wait unread
C21_Witness ==
    /\ SendCommandDone
    /\ result.kind = "returned"
    /\ packet_count = 10
    /\ inbox # <<>>
    /\ Head(inbox).kind = "pkt" /\ Head(inbox).body # <<>>

\* the send_command that has ended failed as a query: it raised (connect or
\* send error), a read error ended its loop, or no packet arrived before the
\* first-packet timeout
QueryFailed ==
    /\ SendCommandDone
    /\ \/ result.kind = "raised"
       \/ result.why = "error"
       \/ result.why = "timeout" /\ packet_count = 0

\* C34 as stated: whenever the player-count query fails, get_player_count
\* gives -1, never 0, and handle_update_detected does not take the branch of
\* the immediate restart.
C34_FailedQueryGivesUnknown ==
    QueryFailed
    => \A resp \in PlayersQuery(result) :
          GetPlayerCount(resp) = -1 /\ Branch(GetPlayerCount(resp)) # "restart"

\* C36 as stated: the text send_command returns holds only bodies of packets
\* the remote sent in reply to that command: a packet that was already in the
\* receive buffer when the command was written, on a connection whose previous
\* packet was an earlier command (the late reply to that command), adds
\* nothing to the text.
C36_TextOnlyFromOwnReplies ==
    [][ (PacketRead /\ full_response' # full_response
            /\ Len(sent) >= 2 /\ FrameType(sent[Len(sent) - 1]) = SERVERDATA_EXECCOMMAND)
        => ~Head(inbox).late ]_vars

\* C40 as stated: when the connection is established and the probe command
\* written but no response packet arrives (first-read timeout or read error),
\* test_server_connection returns False, so that the monitor loop does not
\* start.
C40_ProbeNeedsAResponsePacket ==
    (SendCommandDone /\ result.kind = "returned" /\ packet_count = 0)
    => ~TestServerConnectionReturns(ProbeOutcome(result))

----------------------------------------------------------------------------
(* Properties of the build check (checked under SpecStore) *)

\* the rows of the table for (game, app_id)
GameRows == { r \in db : r.type = "game" /\ r.app_id = app_id }

\* C4: when the table holds a record for (game, app_id) with build old and the
\* source returns new # old, the check returns True and afterwards the record
\* for (game, app_id) holds new.
C4_ChangedBuildReportsUpdateAndStores ==
    (checked.n > 0 /\ checked.fetched \in BuildIds /\ checked.had \in BuildIds
        /\ checked.had # checked.fetched)
    => (/\ checked.ret = TRUE
        /\ \A r \in GameRows : r.build_id = checked.fetched
        /\ GameRows # {})

\* the scenario of the spec: stored "100", the source returns "101"
C4_Witness ==
    /\ checked.had = "100"
    /\ checked.fetched = "101"
    /\ checked.ret = TRUE
    /\ \E r \in GameRows : r.build_id = "101"

\* C5: when the table has no record for (game, app_id) and the source returns
\* a build id, the check returns False and afterwards the table holds exactly
\* one record for that item, with the observed build id.
C5_FirstRunStoresAndReportsNoUpdate ==
    (checked.n > 0 /\ checked.fetched \in BuildIds /\ checked.had = "none")
    => (/\ checked.ret = FALSE
        /\ Cardinality(GameRows) = 1
        /\ \A r \in GameRows : r.build_id = checked.fetched)

\* a first run has just stored the observed build
C5_Witness ==
    /\ checked.n = 1
    /\ checked.had = "none"
    /\ checked.fetched = "101"
    /\ checked.ret = FALSE
    /\ Cardinality(GameRows) = 1

\* this step is a call of check_steam_game_update
BuildCheckStep == clock' = clock + 1

\* C26: when the record for (game, app_id) holds the build the source
\* returns, the check returns False and the table is left exactly as it was
\* (the record's last_checked included).
C26_SameBuildChangesNothing ==
    [][ (BuildCheckStep /\ checked'.fetched \in BuildIds
            /\ checked'.had = checked'.fetched)
        => (checked'.ret = FALSE /\ db' = db) ]_vars

\* a check has found the stored build unchanged and the record keeps the
\* time it was written at
C26_Witness ==
    /\ checked.n > 0
    /\ checked.had = "100" /\ checked.fetched = "100"
    /\ checked.ret = FALSE
    /\ \E r \in GameRows : r.build_id = "100" /\ r.last_checked < checked.n

\* C27: after any sequence of build checks (first run, unchanged, changed,
\* failed fetch) the table holds at most one record per (type, app_id); a
\* check that finds a record never adds one.
C27_OneRecordPerItem ==
    /\ [](UniqueTypeAppId(db) /\ Cardinality(GameRows) <= 1)
    /\ [][ (BuildCheckStep /\ checked'.had \in BuildIds)
           => Cardinality(db') = Cardinality(db) ]_vars

\* a second or later check has stored a changed build beside the record of
\* another item, and the item still has one record
C27_Witness ==
    /\ checked.n >= 2
    /\ checked.had \in BuildIds /\ checked.fetched \in BuildIds
    /\ checked.had # checked.fetched
    /\ Cardinality(GameRows) = 1
    /\ Cardinality(db) = 2
    /\ \A r \in GameRows : r.build_id = checked.fetched /\ r.last_checked = checked.n

----------------------------------------------------------------------------
(* Properties of the restart scheduler (checked under SpecSched) *)

\* this step is a call of handle_update_detected
HandleStep == ncalls' = ncalls + 1

Broadcasts == { "msg_initial", "msg_warning", "msg_final" }
PendingOf(ts, fn) == { t \in ts : t.fn = fn }
\* a countdown is pending: armed, and the execution timer has not fired
CountdownPending == restart_scheduled /\ PendingOf(timers, "do_restart") # {}

\* C6: an arming request (player count > 0) while restart_scheduled is set
\* sends no broadcast and starts no timer; of two arming requests in
\* immediate succession the second adds nothing, so that exactly one warning
\* timer and one execution timer were started by the two.
C6_ArmingWhileArmedIsNoOp ==
    /\ [][ (HandleStep /\ last'.count > 0 /\ restart_scheduled)
           => (timers' = timers /\ log' = log /\ restart_scheduled') ]_vars
    /\ [][ (HandleStep /\ last'.count > 0
               /\ last.step = "handle" /\ last.count > 0 /\ ~last.armed)
           => (/\ timers' = timers
               /\ log' = log
               /\ Cardinality(PendingOf(timers' \ last.timersBefore, "send_final_warning")) = 1
               /\ Cardinality(PendingOf(timers' \ last.timersBefore, "do_restart")) = 1) ]_vars

\* two arming requests in immediate succession have been handled
C6_Witness ==
    /\ ncalls = 2
    /\ last.step = "handle" /\ last.count > 0 /\ last.armed
    /\ now = 0
    /\ Cardinality(timers) = 2
    /\ Len(log) = 1

\* C7 as stated: while a countdown is pending, a call of
\* handle_update_detected issues nothing (no persist command, no restart
\* action), whatever the player count.
C7_SignalIgnoredWhileArmed ==
    [][ (HandleStep /\ CountdownPending) => log' = log ]_vars

\* C8: a call of handle_update_detected that finds 0 players runs
\* restart_server within the call: the persist command is issued by the
\* calling task, followed by the restart action unless the persist command
\* raised; no timer is started and no broadcast is sent.
C8_NoPlayersRestartsWithinTheCall ==
    [][ (HandleStep /\ last'.count = 0)
        => (/\ timers' = timers
            /\ Len(log') > Len(log)
            /\ SubSeq(log', 1, Len(log)) = log
            /\ log'[Len(log) + 1].what = "save"
            /\ \A i \in (Len(log) + 1)..Len(log') :
                  /\ log'[i].by = "main"
                  /\ log'[i].at = now
                  /\ log'[i].what \in {"save", "restart"}) ]_vars

\* an immediate restart has run to its end with no timer and no broadcast
C8_Witness ==
    /\ last.step = "handle" /\ last.count = 0
    /\ timers = {}
    /\ Len(log) = 2
    /\ log[1].what = "save" /\ log[2].what = "restart" /\ log[2].by = "main"

\* C9: a call that finds players and is not armed sends the initial notice at
\* once and starts one warning timer for 29 minutes and one execution timer
\* for 30 minutes; whenever the execution sequence of an arming starts (final
\* broadcast, then the persist command), exactly two broadcasts of that
\* arming precede it: the initial notice at arming time T and the warning at
\* T + 29 min, and the execution is at T + 30 min.
C9_TwoBroadcastsBeforeExecution ==
    /\ [][ (HandleStep /\ last'.count > 0 /\ ~restart_scheduled)
           => (/\ restart_scheduled'
               /\ Len(log') = Len(log) + 1
               /\ SubSeq(log', 1, Len(log)) = log
               /\ log'[Len(log')].what = "msg_initial"
               /\ log'[Len(log')].by = "main"
               /\ log'[Len(log')].at = now
               /\ timers \subseteq timers'
               /\ Cardinality(timers' \ timers) = 2
               /\ \E w, x \in timers' \ timers :
                     /\ w.fn = "send_final_warning" /\ w.due = now + (30 - 1) * 60
                     /\ x.fn = "do_restart" /\ x.due = now + 30 * 60) ]_vars
    /\ [](\A i \in 1..Len(log) :
            (log[i].what = "msg_final")
            => LET g == log[i].gen
                   B == { j \in 1..(i - 1) : log[j].gen = g /\ log[j].what \in Broadcasts }
               IN  /\ Cardinality(B) = 2
                   /\ \E j, k \in B :
                         /\ j < k
                         /\ log[j].what = "msg_initial" /\ log[j].by = "main"
                         /\ log[k].what = "msg_warning" /\ log[k].by = "timer"
                         /\ log[k].at = log[j].at + (30 - 1) * 60
                         /\ log[i].at = log[j].at + 30 * 60
                   /\ log[i].by = "timer"
                   /\ i < Len(log)
                   /\ log[i + 1].what = "save" /\ log[i + 1].gen = g
                   /\ log[i + 1].at = log[i].at)

\* a countdown has run to its end: initial notice, warning, final notice,
\* persist command and restart action
C9_Witness ==
    /\ Len(log) = 5
    /\ log[1].what = "msg_initial" /\ log[1].at = 0
    /\ log[2].what = "msg_warning" /\ log[2].at = 1740
    /\ log[3].what = "msg_final"   /\ log[3].at = 1800
    /\ log[4].what = "save"
    /\ log[5].what = "restart" /\ log[5].by = "timer"

\* C10: a call of handle_update_detected whose player count is the sentinel
\* -1 leaves the armed flag and the timers as they were, sends no broadcast
\* and issues neither the persist command nor the restart action.
C10_UnknownCountChangesNothing ==
    [][ (HandleStep /\ last'.count = -1)
        => (/\ restart_scheduled' = restart_scheduled
            /\ timers' = timers
            /\ log' = log) ]_vars

\* the handler has just aborted on an unknown count and the scheduler is idle
C10_Witness ==
    /\ last.step = "handle" /\ last.count = -1
    /\ ~restart_scheduled
    /\ timers = {}
    /\ log = <<>>

\* the execution timer (do_restart) of an arming has just run
ExecutionRan ==
    last.step = "timer" /\ PendingOf(last.timersBefore \ timers, "do_restart") # {}

\* C11 as stated: after the execution of an armed restart has run, the armed
\* flag is cleared, whether the persist command raised, the service restart
\* failed or both succeeded.
C11_FlagClearedAfterExecution ==
    ExecutionRan => ~restart_scheduled

\* this step is the firing of an execution timer (do_restart)
ExecutionStep == PendingOf(timers \ timers', "do_restart") # {}

\* C22 as stated: an arming call returns with the armed flag set; the flag
\* is cleared only by a step of the deferred execution task; and at no time
\* are two execution timers pending.
C22_OneCountdownAtATime ==
    /\ [][ (HandleStep /\ last'.count > 0 /\ ~restart_scheduled)
           => restart_scheduled' ]_vars
    /\ [][ (restart_scheduled /\ ~restart_scheduled') => ExecutionStep ]_vars
    /\ [](Cardinality(PendingOf(timers, "do_restart")) <= 1)

\* C23 as stated: every restart execution, by the calling task or by the
\* execution timer, issues the persist command and then the service restart
\* action, also when the persist command failed, and leaves the armed flag
\* cleared.
C23_ExecutionSavesThenRestarts ==
    /\ [](\A i \in 1..Len(log) :
            log[i].what = "save"
            => (/\ i < Len(log)
                /\ log[i + 1].what = "restart"
                /\ log[i + 1].by = log[i].by
                /\ log[i + 1].at = log[i].at))
    /\ [](\A i \in 1..Len(log) :
            log[i].what = "restart" => (i > 1 /\ log[i - 1].what = "save"))
    /\ [][ (Len(log') > Len(log) /\ log'[Len(log')].what \in { "save", "restart" })
           => ~restart_scheduled' ]_vars

\* C25 as stated: when the handler finds 0 players, the execution sequence it
\* starts first broadcasts the final notice and only afterwards sends the
\* persist command and triggers the service restart.
C25_FinalNoticeBeforeImmediateRestart ==
    [][ (HandleStep /\ last'.count = 0)
        => (/\ Len(log') > Len(log) + 1
            /\ log'[Len(log) + 1].what = "msg_final"
            /\ log'[Len(log) + 2].what = "save"
            /\ \A i \in (Len(log) + 3)..Len(log') : log'[i].what = "restart") ]_vars

\* C32: once the timers of an arming are started, no later call of the
\* handler cancels or changes them, whatever the player count: a timer leaves
\* the pending set only by firing, time does not pass its due time while it is
\* pending, and every deferred execution runs 30 minutes after the initial
\* notice of its arming.
C32_ArmedRestartFiresAtTotalLead ==
    /\ [][ HandleStep => timers \subseteq timers' ]_vars
    /\ [][ \A t \in timers \ timers' : t.due = now /\ last'.step = "timer" ]_vars
    /\ [](\A t \in timers : now <= t.due)
    /\ [](\A i \in 1..Len(log) :
            log[i].what = "msg_final"
            => \E j \in 1..(i - 1) : /\ log[j].what = "msg_initial"
                                     /\ log[j].gen = log[i].gen
                                     /\ log[i].at = log[j].at + 30 * 60)

\* a restart was armed at time 0, a later handler call found no player and
\* restarted the server at once, and the deferred execution of the arming
\* has still run at 30 minutes
C32_Witness ==
    /\ Len(log) >= 5
    /\ log[1].what = "msg_initial" /\ log[1].at = 0
    /\ \E i \in 2..Len(log) : log[i].what = "restart" /\ log[i].by = "main" /\ log[i].at < 1800
    /\ \E i \in 2..Len(log) : log[i].what = "msg_final" /\ log[i].gen = log[1].gen /\ log[i].at = 1800
    /\ PendingOf(timers, "do_restart") = {}

\* C38: the service restart action is invoked only right after the save
\* command of the same execution (same task, same arming, same time) was sent
\* and send_command returned; after a save command that raised, the restart
\* action is not invoked in that execution.
C38_RestartOnlyAfterSaveReturned ==
    /\ \A i \in 1..Len(log) :
          log[i].what = "restart"
          => /\ i > 1
             /\ log[i-1].what = "save" /\ log[i-1].ok
             /\ log[i-1].by = log[i].by /\ log[i-1].gen = log[i].gen
             /\ log[i-1].at = log[i].at
    /\ \A i \in 1..Len(log) :
          (log[i].what = "save" /\ ~log[i].ok)
          => (i = Len(log) \/ log[i+1].what # "restart")

\* the server was restarted at once by the main task, and the deferred
\* execution of an earlier arming has ended at its save command, which raised
C38_Witness ==
    /\ Len(log) >= 4
    /\ \E i \in 1..Len(log) : log[i].what = "restart" /\ log[i].by = "main"
    /\ log[Len(log)].what = "save" /\ ~log[Len(log)].ok /\ log[Len(log)].by = "timer"
    /\ log[Len(log) - 1].what = "msg_final"
    /\ PendingOf(timers, "do_restart") = {}

\* C39: a broadcast that fails blocks nothing: a call that arms a restart and
\* whose initial notice fails still sets the flag and starts the warning and
\* the execution timer, and a final notice that fails is still followed, in
\* the same execution, by the save command (and by the restart action after
\* it unless the save command raises).
C39_FailedBroadcastBlocksNothing ==
    /\ [][ (HandleStep /\ Len(log') = Len(log) + 1
               /\ log'[Len(log')].what = "msg_initial" /\ ~log'[Len(log')].ok)
           => (/\ restart_scheduled'
               /\ Cardinality(PendingOf(timers' \ timers, "send_final_warning")) = 1
               /\ Cardinality(PendingOf(timers' \ timers, "do_restart")) = 1) ]_vars
    /\ [](\A i \in 1..Len(log) :
            (log[i].what = "msg_final" /\ ~log[i].ok)
            => /\ i < Len(log)
               /\ log[i+1].what = "save"
               /\ log[i+1].by = log[i].by /\ log[i+1].gen = log[i].gen
               /\ log[i+1].at = log[i].at
               /\ log[i+1].ok => (i + 1 < Len(log) /\ log[i+2].what = "restart"))

\* the initial notice failed, the timers fired all the same, the final notice
\* failed too and the server was saved and restarted
C39_Witness ==
    /\ Len(log) = 5
    /\ log[1].what = "msg_initial" /\ ~log[1].ok
    /\ log[3].what = "msg_final" /\ ~log[3].ok /\ log[3].at = 1800
    /\ log[4].what = "save" /\ log[4].ok
    /\ log[5].what = "restart" /\ log[5].by = "timer"

----------------------------------------------------------------------------
(* Properties of the mod check (checked under SpecMods) *)

\* a mod check has run and has read the log
LogScanned == modcheck.n = 1 /\ modcheck.io = "ok"

\* C12 as stated: whenever the log window the verdict was read from holds at
\* least one "Mod xxx Needs updating" line, the mod check returns True,
\* whatever the marker lines say.
C12_ModLineReportsUpdate ==
    (LogScanned /\ ModUpdateLines(modcheck.scanned) # <<>>) => modcheck.ret = TRUE

\* the last marker line of window w is one with pattern
LastMarkerIs(w, pattern) ==
    CheckLines(w) # <<>> /\ Contains(pattern, CheckLines(w)[Len(CheckLines(w))])

C29_StillCheckingRescansOnce ==
    (LogScanned /\ LastMarkerIs(recent_logs, MODS_CHECKING))
    => /\ modcheck.scanned = later_logs
       /\ modcheck.at \in {"rescan_updated", "rescan_need", "mod_lines", "none"}
       /\ LastMarkerIs(later_logs, MODS_UPDATED) => modcheck.ret = FALSE
       /\ LastMarkerIs(later_logs, MODS_NEED_UPDATE) => modcheck.ret = TRUE
       /\ (~LastMarkerIs(later_logs, MODS_UPDATED) /\ ~LastMarkerIs(later_logs, MODS_NEED_UPDATE))
            => (modcheck.ret <=> ModUpdateLines(later_logs) # <<>>)

\* both readings end with "Checking....", the second holds a "Needs updating"
\* line that the first did not, and the call has returned True
C29_Witness ==
    /\ LogScanned
    /\ LastMarkerIs(recent_logs, MODS_CHECKING)
    /\ LastMarkerIs(later_logs, MODS_CHECKING)
    /\ ModUpdateLines(recent_logs) = <<>>
    /\ ModUpdateLines(later_logs) # <<>>
    /\ modcheck.ret = TRUE /\ modcheck.at = "mod_lines"

\* C30: when the log is entirely unavailable (no file could be read and the
\* journal gave nothing, so that get_recent_log_content returns no line), the
\* mod check returns False from its own return statement, not through an
\* exception, whether or not the protocol command had an answer.
C30_NoLogReportsNoUpdate ==
    (LogScanned /\ recent_logs = <<>>)
    => (modcheck.ret = FALSE /\ modcheck.at = "no_logs" /\ modcheck.scanned = <<>>)

\* the check has run on an empty log that has lines by the time of a second
\* reading, and has returned at the first
C30_Witness ==
    /\ LogScanned
    /\ recent_logs = <<>>
    /\ later_logs # <<>> /\ LastMarkerIs(later_logs, MODS_NEED_UPDATE)
    /\ modcheck.ret = FALSE /\ modcheck.at = "no_logs"

----------------------------------------------------------------------------
(* Properties of the two detection paths together (checked under SpecDetect) *)

\* C28: a failure inside either detection path is answered with "no update":
\* a version fetch that raises or gets a bad reply makes the build check
\* return False and leaves the table as it was; a protocol-client error or a
\* log read error makes the mod check return False from its except clause,
\* whatever the log says.
C28_DetectionFailuresReportNoUpdate ==
    /\ [][ (BuildCheckStep /\ checked'.fetched \notin BuildIds)
           => (checked'.ret = FALSE /\ db' = db) ]_vars
    /\ []((modcheck.n = 1 /\ modcheck.io \in {"rcon_raises", "log_raises"})
            => (modcheck.ret = FALSE /\ modcheck.at = "except"))
    /\ []((modcheck.n = 1 /\ modcheck.io = "reread_raises"
                /\ LastMarkerIs(recent_logs, MODS_CHECKING))
            => (modcheck.ret = FALSE /\ modcheck.at = "except"))

\* a fetch has failed on a table that holds a record, and the log could not
\* be read although its last marker says the mods need an update
C28_Witness ==
    /\ checked.n > 0 /\ checked.fetched \notin BuildIds /\ checked.had \in BuildIds
    /\ GameRows # {}
    /\ modcheck.n = 1 /\ modcheck.io = "log_raises"
    /\ LastMarkerIs(recent_logs, MODS_NEED_UPDATE)
    /\ modcheck.ret = FALSE

----------------------------------------------------------------------------
(* Properties of the monitor loop (checked under SpecLoop) *)

\* the while loop of run_monitor_loop is running
InLoop == lpc \in TryPositions \cup { "cooldown" }

\* this step is one in which an exception leaves the cycle's statements:
\* handle_update_detected armed the restart and could start no timer
CycleRaised ==
    lpc = "handle" /\ ~restart_scheduled /\ restart_scheduled' /\ timers' = timers

\* C14 as stated: an exception escaping a cycle is caught (the loop goes on
\* to its cooldown pause, after which the next cycle begins); the loop ends
\* only on the stop signal, and when it ends the protocol connection has been
\* closed.
C14_LoopEndsOnlyOnStopAndCloses ==
    /\ [][ CycleRaised => (lpc' = "cooldown" /\ wake' = now + 60) ]_vars
    /\ [][ (lpc = "cooldown" /\ lpc' # "cooldown" /\ lpc' \notin EndPositions)
           => (lpc' = "build" /\ wake <= now) ]_vars
    /\ [][ (InLoop /\ ~InLoop') => (lpc' = "stopped" /\ socket' = "none") ]_vars

\* C15: test_server_connection runs exactly once, before the first cycle;
\* when it fails (its send_command raised) run_monitor_loop returns, and no
\* build check, no mod check and no handle_update_detected ever runs.
C15_TestedOnceBeforeAnyCycle ==
    /\ [](tests <= 1)
    /\ []((InLoop \/ lpc = "stopped" \/ clock > 0 \/ ncalls > 0 \/ steps # <<>>)
            => tests = 1)
    /\ [][ (lpc = "test" /\ tests' = tests + 1 /\ socket' = "none")
           => lpc' = "refused" ]_vars
    /\ [][ (lpc = "test" /\ tests' = tests + 1)
           => lpc' \in { "build", "refused" } ]_vars
    /\ [][ lpc = "refused" => lpc' = "refused" ]_vars
    /\ [](lpc = "refused"
            => (/\ tests = 1
                /\ clock = 0 /\ db = {}
                /\ steps = <<>>
                /\ ncalls = 0 /\ log = <<>> /\ timers = {} /\ ~restart_scheduled))

\* the test failed, and a check interval later still nothing has run
C15_Witness ==
    /\ lpc = "refused"
    /\ tests = 1
    /\ socket = "none"
    /\ now >= check_interval
    /\ clock = 0


\* the statements the latest cycle has run so far, as a set
StepsDone == { steps[i] : i \in 1..Len(steps) }

\* C31: in each cycle the build check runs first, the mod check next exactly
\* if check_mods is set, and handle_update_detected is called exactly if one
\* of the two checks returned True, and then once (also when both did).
C31_CycleOrder ==
    /\ steps \in { <<>>, << "build" >>, << "build", "mods" >>, << "build", "handle" >>,
                   << "build", "mods", "handle" >> }
    /\ lpc \in { "handle", "sleep", "cooldown" }
        => ("mods" \in StepsDone <=> check_mods)
    /\ lpc \in { "sleep", "cooldown" }
        => ("handle" \in StepsDone <=> (game_updated \/ mods_need_update))
    /\ lpc = "mods" => steps = << "build" >>

\* both checks have reported an update in the second cycle and the handler
\* has been called once
C31_Witness ==
    /\ lpc = "sleep"
    /\ game_updated /\ mods_need_update
    /\ steps = << "build", "mods", "handle" >>
    /\ ncalls = 1

\* C33 as stated: after a cycle that ends with an exception, the pause before
\* the next cycle is not shorter than check_interval: the next cycle's build
\* check does not begin before check_interval seconds have passed.
C33_CooldownNotShorterThanInterval ==
    /\ [][ (lpc # "cooldown" /\ lpc' = "cooldown") => wake' >= now + check_interval ]_vars
    /\ [][ (lpc = "cooldown" /\ lpc' = "build") => now >= wake /\ wake' = wake ]_vars

\* the latest cycle's build check reported an update, its handler call has
\* returned, and no handler call so far has armed or executed anything: the
\* call was aborted on an unknown player count
BuildUpdateAborted ==
    /\ game_updated
    /\ steps # <<>> /\ steps[Len(steps)] = "handle"
    /\ ~restart_scheduled /\ log = <<>> /\ timers = {}

\* C35 as stated: a detected build update is not lost when the handler aborts
\* on an unknown player count: while the version source still reports that
\* build, the next cycle's build check reports the update again, so that the
\* handler is called again for it.
C35_AbortedUpdateIsDetectedAgain ==
    [][ (lpc = "build" /\ BuildCheckStep /\ BuildUpdateAborted
            /\ checked'.fetched = checked.fetched)
        => (checked'.ret = TRUE /\ game_updated') ]_vars

----------------------------------------------------------------------------
(* Properties of the client shared by two tasks (checked under SpecShared) *)

\* C24 as stated: at every moment the client owns at most one live socket,
\* also when the main task and a timer task call send_command concurrently on
\* a disconnected client; no opened socket is left outside self.socket.
C24_AtMostOneLiveSocket ==
    /\ Cardinality(live) <= 1
    /\ \A o \in live : o = sockref

\* C37 as stated: no two packets written by the one client carry the same
\* request id, also when the main task and a timer task send concurrently.
C37_RequestIdsDistinct ==
    \A i, j \in 1..Len(written) : i # j => written[i].id # written[j].id

====
